---- MODULE Spec2Model ----
(***************************************************************************)
(* Model of chips/cc26x2/src/gpio.rs: the pin multiplexer (IOC) operations *)
(* of GPIOPin and the interrupt demultiplexer Port::handle_interrupt.      *)
(*                                                                         *)
(* A multiplex-control register is a record of its bit-fields.  write()    *)
(* replaces the whole register (fields that are not named become 0),       *)
(* modify() replaces only the named fields.  The port registers (doe,      *)
(* evflags) are 32-bit words, held as the set of their 1 bits.             *)
(***************************************************************************)
EXTENDS Integers, Sequences, FiniteSets, TLC

\* ------------------------------------------------------------------ bounds
\* at most MaxPwmChannels timer channels are routed to pins in one run
MaxPwmChannels == 1
\* pins 0..MaxIrqPin and the last pin latch edges and hold clients
MaxIrqPin == 0

\* --------------------------------------------------------------- constants
NUM_PINS == 32

\* ---------------------------------------------------------- 32-bit words
\* A u32 is the set of the indices of its 1 bits.
BitIdx == 0 .. 31

Zero == {}

BitAnd(a, b) == a \cap b

BitOr(a, b) == a \cup b

\* x >> 1
Shr1(a) == {i - 1 : i \in {j \in a : j >= 1}}

\* x & 0b1 != 0
LowBit(a) == 0 \in a

\* GPIOPin::new: pin_mask = 1 << pin
pin_mask(pin) == {pin} \cap BitIdx

\* ------------------------------------------------ ioc::Config bit-fields
\* Field encodings of the multiplex-control register (ioc.rs).  Only the
\* distinctness of the codes and the meaning of code 0 matter here.
Config ==
    [ PORT_ID |-> [ GPIO |-> 0, AON_CLK32K |-> 7, AUX_DOMAIN_IO |-> 8,
                    I2C_MSSDA |-> 13, I2C_MSSCL |-> 14,
                    UART0_RX |-> 15, UART0_TX |-> 16,
                    UART1_RX |-> 19, UART1_TX |-> 20,
                    PORT_EVENT0 |-> 23, PORT_EVENT1 |-> 24,
                    PORT_EVENT2 |-> 25, PORT_EVENT3 |-> 26,
                    PORT_EVENT4 |-> 27, PORT_EVENT5 |-> 28,
                    PORT_EVENT6 |-> 29, PORT_EVENT7 |-> 30 ],
      DRIVE_STRENGTH |-> [ Auto |-> 0, Min |-> 1, Med |-> 2, Max |-> 3 ],
      CURRENT_MODE |-> [ Low |-> 0, High |-> 1, Extended |-> 2 ],
      PULL |-> [ Down |-> 1, Up |-> 2, None |-> 3 ],
      SLEW_RED |-> [ CLEAR |-> 0, SET |-> 1 ],
      HYST_EN |-> [ CLEAR |-> 0, SET |-> 1 ],
      IO_MODE |-> [ Normal |-> 0, Inverted |-> 1, OpenDrain |-> 4 ],
      WAKEUP_CFG |-> [ CLEAR |-> 0 ],
      INPUT_EN |-> [ CLEAR |-> 0, SET |-> 1 ],
      EDGE_DET |-> [ None |-> 0, FallingEdge |-> 1, RisingEdge |-> 2,
                     BothEdges |-> 3 ],
      EDGE_IRQ_EN |-> [ CLEAR |-> 0, SET |-> 1 ] ]

Fields == DOMAIN Config

\* event::GptNx::EVENT::PORT_EVENTk, the codes of the timer event selectors
EVENT ==
    [ PORT_EVENT0 |-> 85, PORT_EVENT1 |-> 86, PORT_EVENT2 |-> 87,
      PORT_EVENT3 |-> 88, PORT_EVENT4 |-> 89, PORT_EVENT5 |-> 90,
      PORT_EVENT6 |-> 91, PORT_EVENT7 |-> 92 ]

\* ---------------------------------- kernel::common::registers primitives
\* FieldValue: a partial assignment of fields; `+` is the union.
Fv(field, name) == field :> Config[field][name]

\* ReadWrite::write: the register becomes the value, unnamed fields are 0
RegWrite(fv) == [f \in Fields |-> IF f \in DOMAIN fv THEN fv[f] ELSE 0]

\* ReadWrite::modify: only the named fields change
RegModify(reg, fv) ==
    [f \in Fields |-> IF f \in DOMAIN fv THEN fv[f] ELSE reg[f]]

\* ReadWrite::is_set: any bit of the field is set
RegIsSet(reg, field) == reg[field] # 0

\* The register after a hardware reset: no pull, everything else 0
ResetCfg == RegWrite(Fv("PULL", "None"))

\* ------------------------------------------------------------ the machine
\* Timer compare channels (pwm::Timer), one event selector register each
Timers == {"GPT0A", "GPT0B", "GPT1A", "GPT1B", "GPT2A", "GPT2B", "GPT3A", "GPT3B"}

\* The registers an operation works on, the accesses it has made so far
\* (acc) and its return value (ret).
Machine(c, d, g) == [cfg |-> c, doe |-> d, gpt_sel |-> g, acc |-> <<>>, ret |-> "unit"]

\* pin_ioc.write(fv) on ioc_registers.cfg[pin]
IocWrite(m, pin, fv) ==
    [m EXCEPT !.cfg[pin] = RegWrite(fv), !.acc = Append(@, "cfg.write")]

\* pin_ioc.modify(fv) on ioc_registers.cfg[pin]
IocModify(m, pin, fv) ==
    [m EXCEPT !.cfg[pin] = RegModify(@, fv), !.acc = Append(@, "cfg.modify")]

\* event::REG.<sel>.write(EVENT::<ev>)
EventWrite(m, sel, ev) ==
    [m EXCEPT !.gpt_sel[sel] = EVENT[ev], !.acc = Append(@, "event.write")]

\* regs.doe.set(regs.doe.get() | pin_mask)
DoeOrMask(m, pin) ==
    [m EXCEPT !.doe = BitOr(@, pin_mask(pin)),
              !.acc = @ \o <<"doe.get", "doe.set">>]

Return(m, v) == [m EXCEPT !.ret = v]

\* ------------------------------------------------- Pinmux implementation
standard_io(m, pin, port_id, io) ==
    IocWrite(m, pin,
        port_id
        @@ Fv("DRIVE_STRENGTH", "Auto")
        @@ Fv("PULL", "None")
        @@ Fv("SLEW_RED", "CLEAR")
        @@ Fv("HYST_EN", "CLEAR")
        @@ io
        @@ Fv("WAKEUP_CFG", "CLEAR"))

standard_input(m, pin, port_id) ==
    standard_io(m, pin, port_id, Fv("INPUT_EN", "SET"))

\* mutant: the output variant enables the input buffer
standard_output_input_en_set(m, pin, port_id) ==
    standard_io(m, pin, port_id, Fv("INPUT_EN", "SET"))

standard_output(m, pin, port_id) ==
    standard_io(m, pin, port_id, Fv("INPUT_EN", "CLEAR"))

\* enable_gpio as a write of the whole register
enable_gpio_write(m, pin) == IocWrite(m, pin, Fv("PORT_ID", "GPIO"))
enable_gpio(m, pin) == IocModify(m, pin, Fv("PORT_ID", "GPIO"))

enable_output(m, pin) == IocModify(m, pin, Fv("INPUT_EN", "CLEAR"))

enable_input(m, pin) == IocModify(m, pin, Fv("INPUT_EN", "SET"))

enable_int(m, pin, mode) ==
    LET ioc_edge_mode ==
            CASE mode = "FallingEdge" -> Fv("EDGE_DET", "FallingEdge")
              [] mode = "RisingEdge"  -> Fv("EDGE_DET", "RisingEdge")
              [] mode = "EitherEdge"  -> Fv("EDGE_DET", "BothEdges")
    IN  IocModify(m, pin, ioc_edge_mode @@ Fv("EDGE_IRQ_EN", "SET"))

\* disable_interrupt that also resets the edge detection
disable_interrupt_clears_edge(m, pin) ==
    IocModify(m, pin, Fv("EDGE_DET", "None") @@ Fv("EDGE_IRQ_EN", "CLEAR"))
disable_interrupt(m, pin) == IocModify(m, pin, Fv("EDGE_IRQ_EN", "CLEAR"))

set_i2c_input(m, pin, port_id) ==
    IocWrite(m, pin,
        port_id
        @@ Fv("DRIVE_STRENGTH", "Auto")
        @@ Fv("PULL", "None")
        @@ Fv("SLEW_RED", "CLEAR")
        @@ Fv("HYST_EN", "CLEAR")
        @@ Fv("IO_MODE", "OpenDrain")
        @@ Fv("WAKEUP_CFG", "CLEAR")
        @@ Fv("INPUT_EN", "SET"))

enable_i2c_sda(m, pin) == set_i2c_input(m, pin, Fv("PORT_ID", "I2C_MSSDA"))

enable_i2c_scl(m, pin) == set_i2c_input(m, pin, Fv("PORT_ID", "I2C_MSSCL"))

\* mutant: the PWM pin is left at automatic drive strength
pwm_output_auto_drive(m, pin, port_id) ==
    IocWrite(m, pin,
        port_id
        @@ Fv("DRIVE_STRENGTH", "Auto")
        @@ Fv("PULL", "None")
        @@ Fv("SLEW_RED", "CLEAR")
        @@ Fv("HYST_EN", "CLEAR")
        @@ Fv("IO_MODE", "Normal")
        @@ Fv("WAKEUP_CFG", "CLEAR")
        @@ Fv("INPUT_EN", "CLEAR"))

pwm_output(m, pin, port_id) ==
    IocWrite(m, pin,
        port_id
        @@ Fv("DRIVE_STRENGTH", "Max")
        @@ Fv("PULL", "None")
        @@ Fv("SLEW_RED", "CLEAR")
        @@ Fv("HYST_EN", "CLEAR")
        @@ Fv("IO_MODE", "Normal")
        @@ Fv("WAKEUP_CFG", "CLEAR")
        @@ Fv("INPUT_EN", "CLEAR"))

enable_pwm(m, pin, pwm) ==
    CASE pwm = "GPT0A" ->
            pwm_output(EventWrite(m, "GPT0A", "PORT_EVENT0"), pin, Fv("PORT_ID", "PORT_EVENT0"))
      [] pwm = "GPT0B" ->
            pwm_output(EventWrite(m, "GPT0B", "PORT_EVENT1"), pin, Fv("PORT_ID", "PORT_EVENT1"))
      [] pwm = "GPT1A" ->
            pwm_output(EventWrite(m, "GPT1A", "PORT_EVENT2"), pin, Fv("PORT_ID", "PORT_EVENT2"))
      [] pwm = "GPT1B" ->
            pwm_output(EventWrite(m, "GPT1B", "PORT_EVENT3"), pin, Fv("PORT_ID", "PORT_EVENT3"))
      [] pwm = "GPT2A" ->
            pwm_output(EventWrite(m, "GPT2A", "PORT_EVENT4"), pin, Fv("PORT_ID", "PORT_EVENT4"))
      [] pwm = "GPT2B" ->
            pwm_output(EventWrite(m, "GPT2B", "PORT_EVENT5"), pin, Fv("PORT_ID", "PORT_EVENT5"))
      [] pwm = "GPT3A" ->
            pwm_output(EventWrite(m, "GPT3A", "PORT_EVENT6"), pin, Fv("PORT_ID", "PORT_EVENT6"))
      [] pwm = "GPT3B" ->
            pwm_output(EventWrite(m, "GPT3B", "PORT_EVENT7"), pin, Fv("PORT_ID", "PORT_EVENT7"))

enable_uart0_rx(m, pin) == standard_input(m, pin, Fv("PORT_ID", "UART0_RX"))

enable_uart0_tx(m, pin) == standard_output(m, pin, Fv("PORT_ID", "UART0_TX"))

enable_uart1_rx(m, pin) == standard_input(m, pin, Fv("PORT_ID", "UART1_RX"))

enable_uart1_tx(m, pin) == standard_output(m, pin, Fv("PORT_ID", "UART1_TX"))

enable_analog_input(m, pin) == standard_input(m, pin, Fv("PORT_ID", "AUX_DOMAIN_IO"))

enable_analog_output(m, pin) == standard_output(m, pin, Fv("PORT_ID", "AUX_DOMAIN_IO"))

enable_32khz_system_clock_input(m, pin) ==
    IocWrite(m, pin,
        Fv("PORT_ID", "AON_CLK32K")
        @@ Fv("CURRENT_MODE", "Low")
        @@ Fv("DRIVE_STRENGTH", "Auto")
        @@ Fv("PULL", "None")
        @@ Fv("SLEW_RED", "CLEAR")
        @@ Fv("HYST_EN", "SET")
        @@ Fv("IO_MODE", "Normal")
        @@ Fv("WAKEUP_CFG", "CLEAR")
        @@ Fv("INPUT_EN", "SET"))

\* ------------------------------------------------------- gpio::Configure
\* set_floating_state as a write of the whole register
set_floating_state_write(m, pin, mode) ==
    IocWrite(m, pin,
        CASE mode = "PullDown" -> Fv("PULL", "Down")
          [] mode = "PullUp"   -> Fv("PULL", "Up")
          [] mode = "PullNone" -> Fv("PULL", "None"))
set_floating_state(m, pin, mode) ==
    LET field ==
            CASE mode = "PullDown" -> Fv("PULL", "Down")
              [] mode = "PullUp"   -> Fv("PULL", "Up")
              [] mode = "PullNone" -> Fv("PULL", "None")
    IN  IocModify(m, pin, field)

deactivate_to_low_power(m, pin) == set_floating_state(m, pin, "PullNone")

make_output(m, pin) ==
    Return(DoeOrMask(enable_output(enable_gpio(m, pin), pin), pin), "Output")

make_input(m, pin) ==
    Return(enable_input(enable_gpio(m, pin), pin), "Input")

is_input(m, pin) == RegIsSet(m.cfg[pin], "INPUT_EN")

\* mutant: output is what the output-enable register says
is_output_from_doe(m, pin) == BitAnd(m.doe, pin_mask(pin)) # Zero

is_output(m, pin) == ~RegIsSet(m.cfg[pin], "INPUT_EN")

configuration(m, pin) ==
    LET input  == is_input(m, pin)
        output == is_output(m, pin)
    IN  CASE ~input /\ ~output -> "Other"
          [] ~input /\ output  -> "Output"
          [] input /\ ~output  -> "Input"
          [] input /\ output   -> "InputOutput"

\* disable_input that clears the input enable
disable_input_clears_ie(m, pin) == Return(enable_output(m, pin), configuration(m, pin))
disable_input(m, pin) == Return(m, configuration(m, pin))

disable_output(m, pin) ==
    LET m1 == enable_input(m, pin) IN Return(m1, configuration(m1, pin))

\* The pin functions a peripheral driver can claim a pin for, and the
\* enable_* entry point of each.
PinFunctions ==
    [fn : {"Uart0Rx", "Uart0Tx", "Uart1Rx", "Uart1Tx", "I2cSda", "I2cScl",
           "AnalogInput", "AnalogOutput", "ClockInput32k"}, arg : {"-"}]
    \cup [fn : {"PwmOutput"}, arg : Timers]

configure_for(m, pin, f) ==
    CASE f.fn = "Uart0Rx"       -> enable_uart0_rx(m, pin)
      [] f.fn = "Uart0Tx"       -> enable_uart0_tx(m, pin)
      [] f.fn = "Uart1Rx"       -> enable_uart1_rx(m, pin)
      [] f.fn = "Uart1Tx"       -> enable_uart1_tx(m, pin)
      [] f.fn = "I2cSda"        -> enable_i2c_sda(m, pin)
      [] f.fn = "I2cScl"        -> enable_i2c_scl(m, pin)
      [] f.fn = "PwmOutput"     -> enable_pwm(m, pin, f.arg)
      [] f.fn = "AnalogInput"   -> enable_analog_input(m, pin)
      [] f.fn = "AnalogOutput"  -> enable_analog_output(m, pin)
      [] f.fn = "ClockInput32k" -> enable_32khz_system_clock_input(m, pin)

\* ------------------------------------------------------------------ state
VARIABLES
    self,          \* the pin the configuration calls are made on
    cfg,           \* ioc_registers.cfg: one multiplex-control register per pin
    doe,           \* registers.doe: output enable, one bit per pin
    gpt_sel,       \* event::REG.gptNx_sel: the timer event selectors
    op,            \* the last configuration call that was made
    acc,           \* the register accesses of that call, in order
    ret,           \* its return value
    query,         \* what configuration() returned since, "none" if not asked
    evflags,       \* registers.evflags: latched edges, write 1 to clear
    client,        \* GPIOPin.client of every pin
    nvic_enabled,  \* the GPIO line of the top-level interrupt controller
    nvic_pending,
    pc,            \* position of Port::handle_interrupt
    local,         \* its `evflags` local
    count,         \* its `count` local
    hlog,          \* what the running invocation has done so far, in order
    watch,         \* one latched edge that is followed until its callback runs
    dout,          \* the output latch behind dout_set / dout_clr / dout_tgl
    ext,           \* the level the outside world puts on each pin
    rd,            \* what read() returned since the last call, "none" if not asked
    prev,          \* rd as it was when the last call was made
    exp,           \* the levels the calls made on each pin, taken alone, give
    mpc,           \* position of the main context inside a call
    tmp,           \* the value that call read from doe
    cut            \* the other context ran inside that call

diovars == <<dout, ext, rd, prev, exp>>

stepvars == <<mpc, tmp, cut>>

cfgvars == <<self, cfg, doe, gpt_sel, op, acc, ret, query, diovars, stepvars>>

irqvars == <<evflags, client, nvic_enabled, nvic_pending, pc, local, count, hlog, watch>>

vars == <<self, cfg, doe, gpt_sel, op, acc, ret, query,
          evflags, client, nvic_enabled, nvic_pending, pc, local, count, hlog, watch,
          dout, ext, rd, prev, exp, mpc, tmp, cut>>

\* the configuration calls are made on the first or on the last pin
CfgPins == {0, NUM_PINS - 1}

\* edges are latched and clients are set on the first pins and on the last
IrqPins == (0 .. MaxIrqPin) \cup {NUM_PINS - 1}

NoArg == [fn |-> "-", arg |-> "-"]

Clients == {"a", "b"}

NoWatch == [pin |-> -1, at |-> "none"]

InitCfg ==
    /\ self \in CfgPins
    /\ cfg = [p \in CfgPins |-> ResetCfg]
    /\ doe = Zero
    /\ gpt_sel = [t \in Timers |-> 0]
    /\ op = [name |-> "reset", f |-> NoArg]
    /\ acc = <<>>
    /\ ret = "unit"
    /\ query = "none"

InitIrq ==
    /\ evflags = Zero
    /\ client = [p \in BitIdx |-> "none"]
    /\ nvic_enabled = TRUE
    /\ nvic_pending = FALSE
    /\ pc = "idle"
    /\ local = Zero
    /\ count = 0
    /\ hlog = <<>>
    /\ watch = NoWatch

InitDio ==
    /\ dout = Zero
    /\ ext = Zero
    /\ rd = "none"
    /\ prev = "none"
    /\ exp = Zero
    /\ mpc = "idle"
    /\ tmp = Zero
    /\ cut = FALSE

Init == InitCfg /\ InitIrq /\ InitDio

\* ------------------------------------------------ configuration calls
Mach == Machine(cfg, doe, gpt_sel)

\* the registers, accesses and return value a call leaves behind
Commit(m, name, f) ==
    /\ cfg' = m.cfg
    /\ doe' = m.doe
    /\ gpt_sel' = m.gpt_sel
    /\ acc' = m.acc
    /\ ret' = m.ret
    /\ op' = [name |-> name, f |-> f]
    /\ query' = "none"
    /\ rd' = "none"
    /\ UNCHANGED <<self, irqvars, dout, ext, prev, exp, stepvars>>

MakeOutput == Commit(make_output(Mach, self), "make_output", NoArg)

MakeInput == Commit(make_input(Mach, self), "make_input", NoArg)

\* the timer channels whose selector has been written
Routed(g) == {t \in Timers : g[t] # 0}

ConfigureFor ==
    \E f \in PinFunctions :
        /\ f.fn = "PwmOutput" =>
               Cardinality(Routed(gpt_sel) \cup {f.arg}) <= MaxPwmChannels
        /\ Commit(configure_for(Mach, self, f), "configure_for", f)

DisableOutput == Commit(disable_output(Mach, self), "disable_output", NoArg)

DisableInput == Commit(disable_input(Mach, self), "disable_input", NoArg)

SetFloatingState ==
    \E mode \in {"PullDown", "PullUp", "PullNone"} :
        Commit(set_floating_state(Mach, self, mode), "set_floating_state",
               [fn |-> mode, arg |-> "-"])

DeactivateToLowPower ==
    Commit(deactivate_to_low_power(Mach, self), "deactivate_to_low_power", NoArg)

\* GPIOPin::enable_gpio, called on its own
EnableGpio == Commit(enable_gpio(Mach, self), "enable_gpio", NoArg)

\* The two interrupt-arming calls are not part of NextCfg.
EnableInterrupts ==
    \E mode \in {"FallingEdge", "RisingEdge", "EitherEdge"} :
        Commit(enable_int(Mach, self, mode), "enable_interrupts",
               [fn |-> mode, arg |-> "-"])

DisableInterrupts ==
    Commit(disable_interrupt(Mach, self), "disable_interrupts", NoArg)

\* gpio::Configure::configuration, asked after the last call
Configuration ==
    /\ query' = configuration(Mach, self)
    /\ UNCHANGED <<self, cfg, doe, gpt_sel, op, acc, ret, irqvars, diovars, stepvars>>

NextCfg ==
    \/ MakeOutput
    \/ MakeInput
    \/ ConfigureFor
    \/ DisableOutput
    \/ DisableInput
    \/ SetFloatingState
    \/ DeactivateToLowPower
    \/ EnableGpio
    \/ Configuration

SpecCfg == Init /\ [][NextCfg]_vars

\* configuration of a pin whose interrupt is armed and disarmed
NextArm ==
    \/ EnableInterrupts
    \/ DisableInterrupts
    \/ MakeOutput
    \/ MakeInput
    \/ ConfigureFor

SpecArm == Init /\ [][NextArm]_vars

\* ------------------------------------------------------------- digital I/O
\* The data registers an operation works on: the output latch, the output
\* enables and the outside levels that together give din.
Gpio(o, d, e) == [dout |-> o, doe |-> d, ext |-> e, acc |-> <<>>, ret |-> "unit"]

\* dout_set, dout_clr, dout_tgl: a write changes the latch bits that are 1 in
\* the written value
DoutSet(g, val) == [g EXCEPT !.dout = @ \cup val, !.acc = Append(@, "dout_set.set")]

DoutClr(g, val) == [g EXCEPT !.dout = @ \ val, !.acc = Append(@, "dout_clr.set")]

DoutTgl(g, val) ==
    [g EXCEPT !.dout = (@ \ val) \cup (val \ @), !.acc = Append(@, "dout_tgl.set")]

\* din: the level of every pin; a pin that is driven shows its latch, any
\* other pin shows what the outside puts on it
DinGet(g) == {p \in BitIdx : IF p \in g.doe THEN p \in g.dout ELSE p \in g.ext}

Bool(b) == IF b THEN "true" ELSE "false"

Neg(v) == IF v = "true" THEN "false" ELSE "true"

\* read without the pin mask
read_any_pin(g, pin) ==
    [g EXCEPT !.acc = Append(@, "din.get"), !.ret = Bool(DinGet(g) # Zero)]
\* gpio::Input::read
read(g, pin) ==
    [g EXCEPT !.acc = Append(@, "din.get"),
              !.ret = Bool(BitAnd(DinGet(g), pin_mask(pin)) # Zero)]

\* the write of GPIOPin::toggle
toggle_write(g, pin) == DoutTgl(g, pin_mask(pin))

\* GPIOPin::toggle
toggle(g, pin) == read(toggle_write(g, pin), pin)

\* set as a read-modify-write of a data register
set_read_modify_write(g, pin) ==
    [g EXCEPT !.dout = BitOr(@, pin_mask(pin)), !.acc = @ \o <<"dout.get", "dout.set">>]
\* GPIOPin::set
set(g, pin) == DoutSet(g, pin_mask(pin))

\* GPIOPin::clear
clear(g, pin) == DoutClr(g, pin_mask(pin))

\* The pin of the other context
OtherPin == CHOOSE p \in CfgPins : p # self

Data == Gpio(dout, doe, ext)

Flip(w, pin) == (w \ {pin}) \cup ({pin} \ w)

\* a whole call of the main context on its pin
Call(g, name, e) ==
    /\ mpc = "idle"
    /\ dout' = g.dout
    /\ acc' = g.acc
    /\ ret' = g.ret
    /\ op' = [name |-> name, f |-> NoArg]
    /\ prev' = rd
    /\ rd' = "none"
    /\ exp' = e
    /\ query' = "none"
    /\ cut' = FALSE
    /\ UNCHANGED <<self, cfg, doe, gpt_sel, ext, irqvars, mpc, tmp>>

Set == Call(set(Data, self), "set", exp \cup {self})

Clear == Call(clear(Data, self), "clear", exp \ {self})

\* toggle, its two register accesses apart
ToggleWrite ==
    LET g == toggle_write(Data, self) IN
    /\ mpc = "idle"
    /\ mpc' = "toggle"
    /\ dout' = g.dout
    /\ acc' = g.acc
    /\ ret' = "unit"
    /\ op' = [name |-> "toggle", f |-> NoArg]
    /\ prev' = rd
    /\ rd' = "none"
    /\ exp' = Flip(exp, self)
    /\ query' = "none"
    /\ cut' = FALSE
    /\ UNCHANGED <<self, cfg, doe, gpt_sel, ext, irqvars, tmp>>

ToggleRead ==
    LET g == read(Data, self) IN
    /\ mpc = "toggle"
    /\ mpc' = "idle"
    /\ acc' = acc \o g.acc
    /\ ret' = g.ret
    /\ UNCHANGED <<self, cfg, doe, gpt_sel, op, query, irqvars, diovars, tmp, cut>>

Read ==
    /\ mpc = "idle"
    /\ rd' = read(Data, self).ret
    /\ UNCHANGED <<self, cfg, doe, gpt_sel, op, acc, ret, query, irqvars,
                   dout, ext, prev, exp, stepvars>>

\* the other context works on its own pin, between any two register
\* accesses of the main context
Preempt(g, e) ==
    /\ dout' = g.dout
    /\ exp' = e
    /\ cut' = (cut \/ mpc # "idle")
    /\ UNCHANGED <<self, cfg, doe, gpt_sel, op, acc, ret, query, irqvars,
                   ext, rd, prev, mpc, tmp>>

OtherSet == Preempt(set(Data, OtherPin), exp \cup {OtherPin})

OtherClear == Preempt(clear(Data, OtherPin), exp \ {OtherPin})

OtherToggle == Preempt(toggle(Data, OtherPin), Flip(exp, OtherPin))

\* the outside changes the level it puts on a pin
Outside ==
    \E p \in CfgPins :
        /\ ext' = Flip(ext, p)
        /\ UNCHANGED <<self, cfg, doe, gpt_sel, op, acc, ret, query, irqvars,
                       dout, rd, prev, exp, stepvars>>

MakeOutputIdle == mpc = "idle" /\ MakeOutput

NextDio ==
    \/ MakeOutputIdle
    \/ Set
    \/ Clear
    \/ ToggleWrite
    \/ ToggleRead
    \/ Read
    \/ OtherSet
    \/ OtherClear
    \/ OtherToggle
    \/ Outside

SpecDio == Init /\ [][NextDio]_vars

\* ------------------------------------- make_output, one register access a step
\* enable_gpio(): the first access of a make_output call of the main context
MO_EnableGpio ==
    LET m == enable_gpio(Mach, self) IN
    /\ mpc = "idle"
    /\ mpc' = "enable_output"
    /\ cfg' = m.cfg
    /\ acc' = m.acc
    /\ ret' = "unit"
    /\ op' = [name |-> "make_output", f |-> NoArg]
    /\ query' = "none"
    /\ rd' = "none"
    /\ cut' = FALSE
    /\ UNCHANGED <<self, doe, gpt_sel, irqvars, dout, ext, prev, exp, tmp>>

\* enable_output()
MO_EnableOutput ==
    LET m == enable_output(Mach, self) IN
    /\ mpc = "enable_output"
    /\ mpc' = "doe_get"
    /\ cfg' = m.cfg
    /\ acc' = acc \o m.acc
    /\ UNCHANGED <<self, doe, gpt_sel, op, ret, query, irqvars, diovars, tmp, cut>>

\* regs.doe.get()
MO_DoeGet ==
    /\ mpc = "doe_get"
    /\ mpc' = "doe_set"
    /\ tmp' = doe
    /\ acc' = Append(acc, "doe.get")
    /\ UNCHANGED <<self, cfg, doe, gpt_sel, op, ret, query, irqvars, diovars, cut>>

\* regs.doe.set(<the value read> | self.pin_mask), and the return
MO_DoeSet ==
    /\ mpc = "doe_set"
    /\ mpc' = "idle"
    /\ doe' = BitOr(tmp, pin_mask(self))
    /\ acc' = Append(acc, "doe.set")
    /\ ret' = "Output"
    /\ UNCHANGED <<self, cfg, gpt_sel, op, query, irqvars, diovars, tmp, cut>>

\* a whole make_output of the other context on its pin, between any two
\* register accesses of the main context
OtherMakeOutput ==
    LET m == make_output(Mach, OtherPin) IN
    /\ cfg' = m.cfg
    /\ doe' = m.doe
    /\ cut' = (cut \/ mpc # "idle")
    /\ UNCHANGED <<self, gpt_sel, op, acc, ret, query, irqvars, diovars, mpc, tmp>>

\* between two calls the pin is claimed for a peripheral function
ConfigureForIdle == mpc = "idle" /\ ConfigureFor

NextStep ==
    \/ MO_EnableGpio
    \/ MO_EnableOutput
    \/ MO_DoeGet
    \/ MO_DoeSet
    \/ OtherMakeOutput
    \/ ConfigureForIdle

SpecStep == Init /\ [][NextStep]_vars

\* ------------------------------------------------ the event-flag register
\* evflags is write-1-to-clear: a write clears the bits that are 1 in the
\* written value and leaves the others as they are
EvflagsWrite(reg, val) == reg \ val

\* a callback is running: the last pass of the loop of Port::handle_interrupt
\* called client.fired() and the next pass has not begun
InCallback ==
    /\ pc = "loop"
    /\ count >= 1
    /\ hlog # <<>>
    /\ hlog[Len(hlog)].ev = "fired"
    /\ hlog[Len(hlog)].val = {count - 1}

\* set_client that stores the client in one slot shared by all pins
SetClient_shared_slot ==
    \E p \in IrqPins, c \in Clients :
        /\ pc = "idle" \/ InCallback
        /\ client' = [q \in BitIdx |-> c]
        /\ UNCHANGED <<cfgvars, evflags, nvic_enabled, nvic_pending, pc, local, count,
                       hlog, watch>>
\* GPIOPin::set_client, called between two interrupts or by a callback
SetClient ==
    \E p \in IrqPins, c \in Clients :
        /\ pc = "idle" \/ InCallback
        /\ client' = [client EXCEPT ![p] = c]
        /\ UNCHANGED <<cfgvars, evflags, nvic_enabled, nvic_pending, pc, local, count,
                       hlog, watch>>

\* The window of Port::handle_interrupt an edge falls into
Window ==
    CASE pc \in {"idle", "get"} -> "pre"
      [] pc = "set" -> "mid"
      [] pc \in {"loop", "clear_pending", "enable"} -> "late"

\* The hardware latches an edge of pin p: its event flag is set and the GPIO
\* line of the interrupt controller is raised.  Any one edge may be picked
\* to be followed (watch) when none is being followed.
HwEdge ==
    \E p \in IrqPins :
        /\ evflags' = BitOr(evflags, pin_mask(p))
        /\ nvic_pending' = TRUE
        /\ \/ UNCHANGED watch
           \/ /\ watch = NoWatch
              /\ watch' = [pin |-> p, at |-> Window]
        /\ UNCHANGED <<cfgvars, client, nvic_enabled, pc, local, count, hlog>>

\* The interrupt is taken: the line is pending and enabled.  The vector
\* disables the line and runs Port::handle_interrupt.
Entry ==
    /\ nvic_enabled /\ nvic_pending
    /\ nvic_enabled' = FALSE
    /\ pc' = "get"
    /\ local' = Zero
    /\ count' = 0
    /\ hlog' = <<>>
    /\ watch' = IF watch.at = "late" THEN [watch EXCEPT !.at = "carried"] ELSE watch
    /\ UNCHANGED <<cfgvars, evflags, client, nvic_pending>>

Ev(e, v) == [ev |-> e, val |-> v, by |-> "-"]

\* client.fired() of pin p, on the client c
FiredBy(p, c) == [ev |-> "fired", val |-> {p}, by |-> c]

\* let mut evflags = regs.evflags.get();
HI_Get ==
    /\ pc = "get"
    /\ local' = evflags
    /\ hlog' = Append(hlog, Ev("evflags.get", evflags))
    /\ pc' = "set"
    /\ UNCHANGED <<cfgvars, evflags, client, nvic_enabled, nvic_pending, count, watch>>

\* mutant: every flag is cleared, not only the ones that were read
HI_Set_all_ones ==
    /\ pc = "set"
    /\ evflags' = EvflagsWrite(evflags, BitIdx)
    /\ hlog' = Append(hlog, Ev("evflags.set", BitIdx))
    /\ count' = 0
    /\ pc' = "loop"
    /\ UNCHANGED <<cfgvars, client, nvic_enabled, nvic_pending, local, watch>>

\* mutant: the register is read again for the write-back
HI_Set_reads_again ==
    /\ pc = "set"
    /\ evflags' = EvflagsWrite(evflags, evflags)
    /\ hlog' = hlog \o <<Ev("evflags.get", evflags), Ev("evflags.set", evflags)>>
    /\ count' = 0
    /\ pc' = "loop"
    /\ UNCHANGED <<cfgvars, client, nvic_enabled, nvic_pending, local, watch>>

\* mutant: the line is enabled again right after the write-back
HI_Set_then_enable ==
    /\ pc = "set"
    /\ evflags' = EvflagsWrite(evflags, local)
    /\ nvic_enabled' = TRUE
    /\ hlog' = hlog \o <<Ev("evflags.set", local), Ev("nvic.enable", Zero)>>
    /\ count' = 0
    /\ pc' = "loop"
    /\ UNCHANGED <<cfgvars, client, nvic_pending, local, watch>>

\* regs.evflags.set(evflags);
HI_Set ==
    /\ pc = "set"
    /\ evflags' = EvflagsWrite(evflags, local)
    /\ hlog' = Append(hlog, Ev("evflags.set", local))
    /\ count' = 0
    /\ pc' = "loop"
    /\ UNCHANGED <<cfgvars, client, nvic_enabled, nvic_pending, local, watch>>

\* GPIOPin::handle_interrupt of pin p: client.map(|client| client.fired())
Fired(p) == IF client[p] # "none" THEN <<FiredBy(p, client[p])>> ELSE <<>>

\* the followed edge is served when the dispatch reaches its pin, unless
\* the edge was latched after the write-back of this very invocation
Served(p) ==
    IF watch.pin = p /\ watch.at \in {"pre", "mid", "carried"}
    THEN NoWatch ELSE watch

\* mutant: the body calls the pin without testing its bit
HI_Loop_no_bit_test ==
    /\ pc = "loop"
    /\ IF local # Zero /\ count < NUM_PINS
       THEN /\ hlog' = hlog \o Fired(count) /\ watch' = Served(count)
            /\ count' = count + 1
            /\ local' = Shr1(local)
            /\ pc' = "loop"
       ELSE /\ pc' = "clear_pending"
            /\ UNCHANGED <<hlog, watch, count, local>>
    /\ UNCHANGED <<cfgvars, evflags, client, nvic_enabled, nvic_pending>>

\* mutant: the flag of a pin is cleared again when the pin is dispatched
HI_Loop_clears_flag ==
    /\ pc = "loop"
    /\ IF local # Zero /\ count < NUM_PINS
       THEN /\ IF LowBit(local)
               THEN /\ hlog' = hlog \o Fired(count) /\ watch' = Served(count)
                    /\ evflags' = EvflagsWrite(evflags, pin_mask(count))
               ELSE UNCHANGED <<hlog, watch, evflags>>
            /\ count' = count + 1
            /\ local' = Shr1(local)
            /\ pc' = "loop"
       ELSE /\ pc' = "clear_pending"
            /\ UNCHANGED <<hlog, watch, count, local, evflags>>
    /\ UNCHANGED <<cfgvars, client, nvic_enabled, nvic_pending>>

\* one test of the while condition and, if it holds, one pass of the body
HI_Loop ==
    /\ pc = "loop"
    /\ IF local # Zero /\ count < NUM_PINS
       THEN /\ IF LowBit(local)
               THEN hlog' = hlog \o Fired(count) /\ watch' = Served(count)
               ELSE UNCHANGED <<hlog, watch>>
            /\ count' = count + 1
            /\ local' = Shr1(local)
            /\ pc' = "loop"
       ELSE /\ pc' = "clear_pending"
            /\ UNCHANGED <<hlog, watch, count, local>>
    /\ UNCHANGED <<cfgvars, evflags, client, nvic_enabled, nvic_pending>>

\* self.nvic.clear_pending(): the pending state is cleared; the line is
\* level-sensitive, so it is pending again at once while a flag is latched
HI_ClearPending ==
    /\ pc = "clear_pending"
    /\ nvic_pending' = (evflags # Zero)
    /\ hlog' = Append(hlog, Ev("nvic.clear_pending", Zero))
    /\ pc' = "enable"
    /\ UNCHANGED <<cfgvars, evflags, client, nvic_enabled, local, count, watch>>

\* self.nvic.enable(), and the return from the handler
HI_Enable ==
    /\ pc = "enable"
    /\ nvic_enabled' = TRUE
    /\ hlog' = <<>>
    /\ pc' = "idle"
    /\ UNCHANGED <<cfgvars, evflags, client, nvic_pending, local, count, watch>>

Handler == HI_Get \/ HI_Set \/ HI_Loop \/ HI_ClearPending \/ HI_Enable

NextIrq ==
    \/ SetClient
    \/ HwEdge
    \/ Entry
    \/ HI_Get
    \/ HI_Set
    \/ HI_Loop
    \/ HI_ClearPending
    \/ HI_Enable

\* the configuration registers play no part here and stay at reset
InitPort == Init /\ self = 0

SpecIrq == InitPort /\ [][NextIrq]_vars

\* The handler runs to completion and a pending, enabled interrupt is taken.
SpecIrqFair == SpecIrq /\ WF_vars(Handler) /\ WF_vars(Entry)

\* ========================================================== dispatch claims
\* the value the running invocation read from the event-flag register
Snapshot == hlog[1].val

Calls == SelectSeq(hlog, LAMBDA e : e.ev = "fired")

\* the pins whose callback was called, in the order of the calls
CalledPins == [i \in 1 .. Len(Calls) |-> CHOOSE p \in BitIdx : Calls[i].val = {p}]

Dispatching == pc \in {"loop", "clear_pending", "enable"}

Dispatched == pc \in {"clear_pending", "enable"}

\* one pass of the loop body, over pin count
Pass == pc = "loop" /\ count' = count + 1

\* C1: in one invocation the pass over a pin calls the callback of the pin,
\* once, exactly when the bit of the pin is set in the snapshot and the pin
\* has a client at that moment; the calls are made in strictly ascending pin
\* order, and when the dispatch is complete every pin of the snapshot has
\* had its pass.
C1_DispatchOrder ==
    /\ [][Pass =>
              hlog' = IF count \in Snapshot /\ client[count] # "none"
                      THEN Append(hlog, FiredBy(count, client[count]))
                      ELSE hlog]_vars
    /\ [](Dispatching =>
              /\ \A i, j \in 1 .. Len(Calls) : i < j => CalledPins[i] < CalledPins[j]
              /\ \A i \in 1 .. Len(Calls) :
                     CalledPins[i] \in Snapshot /\ CalledPins[i] < count)
    /\ [](Dispatched => \A p \in Snapshot : p < count)

C1_Witness ==
    /\ pc = "clear_pending"
    /\ Snapshot = {0, NUM_PINS - 1}
    /\ client[0] # "none" /\ client[NUM_PINS - 1] # "none"
    /\ Calls = <<FiredBy(0, client[0]), FiredBy(NUM_PINS - 1, client[NUM_PINS - 1])>>

\* the register is read once, then the value read is written once, and
\* nothing else touches the register
OneReadOneWrite ==
    pc \in {"loop", "clear_pending", "enable"} =>
        /\ Len(hlog) >= 2
        /\ hlog[1].ev = "evflags.get"
        /\ hlog[2] = Ev("evflags.set", hlog[1].val)
        /\ \A i \in 3 .. Len(hlog) : hlog[i].ev \notin {"evflags.get", "evflags.set"}

\* the write-back step: bits of the snapshot are clear after it, the other
\* bits are as they were before it
WriteBackEffect ==
    (pc = "set" /\ pc' = "loop") =>
        /\ BitAnd(evflags', Snapshot) = Zero
        /\ \A i \in BitIdx \ Snapshot : (i \in evflags') <=> (i \in evflags)

\* C2: handle_interrupt reads the event flags once and writes the snapshot
\* back once before any callback; right after the write-back the bits of the
\* snapshot are clear and every other bit is unchanged.
C2_Drain == [](OneReadOneWrite) /\ [][WriteBackEffect]_vars

C2_Witness ==
    /\ pc = "loop" /\ count = 0
    /\ Snapshot = {0}
    /\ watch = [pin |-> NUM_PINS - 1, at |-> "mid"]
    /\ evflags = {NUM_PINS - 1}

\* C3: the line stays disabled from entry until the handler has called
\* clear_pending and enable, and those calls come after every callback, so
\* the interrupt cannot be taken again while a dispatch is in progress.
C3_NoReentry ==
    /\ pc # "idle" => ~nvic_enabled
    /\ pc # "idle" => ~ENABLED Entry
    /\ pc \in {"get", "set", "loop"} =>
           \A i \in 1 .. Len(hlog) : hlog[i].ev \notin {"nvic.clear_pending", "nvic.enable"}

C3_Witness ==
    /\ pc = "loop" /\ count = 1
    /\ Len(Calls) = 1
    /\ nvic_pending /\ evflags # Zero
    /\ local # Zero

\* an edge latched after the write-back stays latched, and once the handler
\* has returned the interrupt is pending and enabled again
LateEdgeKept ==
    /\ watch.at = "late" => watch.pin \in evflags
    /\ (watch.at = "late" /\ pc = "idle") => (nvic_pending /\ nvic_enabled)
    /\ (watch.at = "carried" /\ pc = "get") => watch.pin \in evflags

\* C4: an edge latched after the write-back is not served by the running
\* invocation, stays latched through its end, and a further invocation
\* calls the callback of its pin, if that pin has one.
C4_LateEdge ==
    /\ []LateEdgeKept
    /\ \A p \in IrqPins :
           (watch = [pin |-> p, at |-> "late"] /\ client[p] # "none")
               ~> (watch = NoWatch /\ hlog # <<>> /\ hlog[Len(hlog)] = FiredBy(p, client[p]))

C4_Witness ==
    /\ watch = [pin |-> 0, at |-> "carried"]
    /\ pc = "loop" /\ count = 0
    /\ 0 \in Snapshot
    /\ client[0] # "none"

\* an edge latched between the read and the write-back is still latched, or
\* its pin is in the snapshot and has not been dispatched yet
MidEdgeKept ==
    watch.at = "mid" =>
        \/ watch.pin \in evflags
        \/ pc = "loop" /\ watch.pin >= count /\ (watch.pin - count) \in local

\* C5: an edge latched between the read and the write-back is not cut: the
\* callback of its pin, if it has one, is called after the edge, in this
\* dispatch or in a later invocation.
C5_MidEdge ==
    /\ []MidEdgeKept
    /\ \A p \in IrqPins :
           (watch = [pin |-> p, at |-> "mid"] /\ client[p] # "none")
               ~> (watch = NoWatch /\ hlog # <<>> /\ hlog[Len(hlog)] = FiredBy(p, client[p]))

C5_Witness ==
    /\ watch = [pin |-> NUM_PINS - 1, at |-> "mid"]
    /\ pc = "idle"
    /\ (NUM_PINS - 1) \in evflags
    /\ client[NUM_PINS - 1] # "none"

\* ====================================================== configuration claims
IE == RegIsSet(cfg[self], "INPUT_EN")

OE == BitAnd(doe, pin_mask(self)) # Zero

\* the direction each pin function implies
Direction(fn) ==
    CASE fn \in {"Uart0Rx", "Uart1Rx", "I2cSda", "I2cScl", "AnalogInput", "ClockInput32k"}
            -> "Input"
      [] fn \in {"Uart0Tx", "Uart1Tx", "PwmOutput", "AnalogOutput"}
            -> "Output"

\* C6: configure_for(pin, f) followed by query_configuration(pin) returns the
\* direction implied by f, on every pin and from every prior register state.
C6_ConfigureThenQuery ==
    (op.name = "configure_for" /\ query # "none") => query = Direction(op.f.fn)

C6_Witness ==
    /\ op.name = "configure_for" /\ op.f.fn = "Uart0Tx"
    /\ self = NUM_PINS - 1
    /\ query = "Output"

\* the table of the pin functions: the fields every row names
TableRow(fn) ==
    CASE fn \in {"Uart0Tx", "Uart1Tx", "AnalogOutput"} ->
            [DRIVE_STRENGTH |-> "Auto", PULL |-> "None", IO_MODE |-> "Normal", INPUT_EN |-> "CLEAR"]
      [] fn \in {"Uart0Rx", "Uart1Rx", "AnalogInput"} ->
            [DRIVE_STRENGTH |-> "Auto", PULL |-> "None", IO_MODE |-> "Normal", INPUT_EN |-> "SET"]
      [] fn \in {"I2cSda", "I2cScl"} ->
            [DRIVE_STRENGTH |-> "Auto", PULL |-> "None", IO_MODE |-> "OpenDrain", INPUT_EN |-> "SET"]
      [] fn = "PwmOutput" ->
            [DRIVE_STRENGTH |-> "Max", PULL |-> "None", IO_MODE |-> "Normal", INPUT_EN |-> "CLEAR"]
      [] fn = "ClockInput32k" ->
            [DRIVE_STRENGTH |-> "Auto", PULL |-> "None", IO_MODE |-> "Normal", INPUT_EN |-> "SET"]

\* timer channel k and port event k, k = 1..8
TimerOrder == <<"GPT0A", "GPT0B", "GPT1A", "GPT1B", "GPT2A", "GPT2B", "GPT3A", "GPT3B">>

PortEventOrder ==
    <<"PORT_EVENT0", "PORT_EVENT1", "PORT_EVENT2", "PORT_EVENT3",
      "PORT_EVENT4", "PORT_EVENT5", "PORT_EVENT6", "PORT_EVENT7">>

\* C7: configure_for makes one replacing write to the pin's register whose
\* fields are the table row of the function; PwmOutput(timer k) selects
\* function code PORT_EVENTk and sets the event selector of channel k to
\* PORT_EVENTk; ClockInput32k enables hysteresis; slew reduction and wake-up
\* are clear in every row.
C7_TableRows ==
    op.name = "configure_for" =>
        LET r   == cfg[self]
            row == TableRow(op.f.fn)
        IN  /\ SelectSeq(acc, LAMBDA a : a \in {"cfg.write", "cfg.modify"}) = <<"cfg.write">>
            /\ \A fld \in DOMAIN row : r[fld] = Config[fld][row[fld]]
            /\ r.SLEW_RED = Config.SLEW_RED.CLEAR
            /\ r.WAKEUP_CFG = Config.WAKEUP_CFG.CLEAR
            /\ op.f.fn = "ClockInput32k" => r.HYST_EN = Config.HYST_EN.SET
            /\ op.f.fn = "PwmOutput" =>
                   \E k \in 1 .. 8 :
                       /\ op.f.arg = TimerOrder[k]
                       /\ r.PORT_ID = Config.PORT_ID[PortEventOrder[k]]
                       /\ gpt_sel[op.f.arg] = EVENT[PortEventOrder[k]]
                       /\ acc = <<"event.write", "cfg.write">>

C7_Witness ==
    /\ op.name = "configure_for" /\ op.f.fn = "PwmOutput" /\ op.f.arg = "GPT3B"
    /\ cfg[self].PORT_ID = Config.PORT_ID.PORT_EVENT7
    /\ cfg[self].DRIVE_STRENGTH = Config.DRIVE_STRENGTH.Max
    /\ gpt_sel["GPT3B"] = EVENT.PORT_EVENT7

\* the fields of the register that describe the selected function
MuxFields ==
    {"DRIVE_STRENGTH", "PULL", "SLEW_RED", "HYST_EN", "IO_MODE", "WAKEUP_CFG",
     "INPUT_EN", "PORT_ID"}

\* the last call, made on a pin whose register has its reset value
OnResetPin ==
    LET m0 == Machine([p \in CfgPins |-> ResetCfg], Zero, [t \in Timers |-> 0])
    IN  CASE op.name = "make_output"   -> make_output(m0, self)
          [] op.name = "make_input"    -> make_input(m0, self)
          [] op.name = "configure_for" -> configure_for(m0, self, op.f)

\* C8 (as claimed): after make_digital_output, make_digital_input or
\* configure_for every function field of the pin's register is determined by
\* the call alone, so it is what the same call leaves on a pin that was never
\* configured: no field keeps a value of the previous function.
C8_FullReplace ==
    op.name \in {"make_output", "make_input", "configure_for"} =>
        \A fld \in MuxFields : cfg[self][fld] = OnResetPin.cfg[self][fld]

\* C9 (as claimed): input-enable and the pin's output-enable bit are never
\* asserted together.
C9_Exclusive == ~(IE /\ OE)

\* C10 (as claimed): query_configuration is Other when neither flag is
\* asserted, Input when only input-enable is, Output when only output-enable
\* is, InputOutput when both are.
C10_FromBothFlags ==
    query # "none" =>
        query = CASE ~IE /\ ~OE -> "Other"
                  [] IE /\ ~OE  -> "Input"
                  [] ~IE /\ OE  -> "Output"
                  [] IE /\ OE   -> "InputOutput"

\* C10 (amended): query_configuration is derived from input-enable alone:
\* Input when it is asserted, Output when it is clear, whatever the
\* output-enable register holds; never Other, never InputOutput.
C10_FromInputEnable ==
    query # "none" => query = (IF IE THEN "Input" ELSE "Output")

C10_Witness ==
    /\ op.name = "configure_for"
    /\ ~IE /\ ~OE
    /\ query = "Output"

\* ========================================================= digital I/O claims
\* C11: on a pin that make_output has made an output, a read after set gives
\* true, a read after clear gives false, and toggle returns the negation of
\* what read returned just before the call.
C11_SetClearToggle ==
    (self \in doe /\ mpc = "idle") =>
        /\ (op.name = "set" /\ rd # "none") => rd = "true"
        /\ (op.name = "clear" /\ rd # "none") => rd = "false"
        /\ (op.name = "toggle" /\ prev # "none") => ret = Neg(prev)

C11_Witness ==
    /\ self \in doe
    /\ mpc = "idle"
    /\ op.name = "toggle"
    /\ prev = "true"
    /\ ret = "false"
    /\ OtherPin \in ext

\* C12: set, clear and toggle each make one register write and read no data
\* register before it; with the calls on two pins interleaved at every
\* register access, the latch of each pin is what the calls made on that pin
\* alone give.
C12_Independent ==
    /\ dout = exp
    /\ op.name = "set" => acc = <<"dout_set.set">>
    /\ op.name = "clear" => acc = <<"dout_clr.set">>
    /\ op.name = "toggle" =>
           acc \in {<<"dout_tgl.set">>, <<"dout_tgl.set", "din.get">>}

C12_Witness ==
    /\ op.name = "toggle"
    /\ mpc = "idle"
    /\ cut
    /\ self \in dout
    /\ OtherPin \notin dout
    /\ acc = <<"dout_tgl.set", "din.get">>

\* ================================================== further configuration claims
\* C13: disable_input leaves every register as it was and returns what
\* configuration() returns for the pin, which is what it returned when asked
\* just before the call; after disable_output configuration() is Input.
C13_DisableKeeps ==
    /\ [][DisableInput =>
              /\ cfg' = cfg
              /\ doe' = doe
              /\ gpt_sel' = gpt_sel
              /\ ret' = configuration(Mach, self)
              /\ query # "none" => ret' = query]_vars
    /\ [](op.name = "disable_output" =>
              /\ ret = "Input"
              /\ configuration(Mach, self) = "Input"
              /\ query \in {"none", "Input"})

C13_Witness ==
    /\ op.name = "disable_input"
    /\ ret = "Output"
    /\ cfg[self].PORT_ID = Config.PORT_ID.UART0_TX
    /\ self \notin doe

\* C18: disable_output is make_input: from every state, one peripheral-routed
\* included, it leaves the registers make_input would leave, with the GPIO
\* function selected and the input enable set.
C18_SameAsMakeInput ==
    [][DisableOutput =>
          /\ cfg' = make_input(Mach, self).cfg
          /\ doe' = make_input(Mach, self).doe
          /\ cfg'[self].PORT_ID = Config.PORT_ID.GPIO
          /\ cfg'[self].INPUT_EN = Config.INPUT_EN.SET]_vars

\* ============================================================ arming claims
EdgeModes == {"FallingEdge", "RisingEdge", "EitherEdge"}

Armed == cfg[self].EDGE_IRQ_EN = Config.EDGE_IRQ_EN.SET

\* the step is the call that op then names (every call records itself in op)
Did(name) == op'.name = name

\* C14: disable_interrupt clears the edge-IRQ-enable field and changes nothing
\* else, so a second call changes nothing; enable_interrupt sets the field
\* and gives the three edges three different edge-detect codes.
C14_ArmDisarm ==
    /\ [][Did("disable_interrupts") =>
              /\ cfg' = [cfg EXCEPT ![self].EDGE_IRQ_EN = Config.EDGE_IRQ_EN.CLEAR]
              /\ doe' = doe
              /\ gpt_sel' = gpt_sel
              /\ op.name = "disable_interrupts" => cfg' = cfg]_vars
    /\ [](op.name = "enable_interrupts" => Armed)
    /\ [](\A m1, m2 \in EdgeModes :
              m1 # m2 => enable_int(Mach, self, m1).cfg[self].EDGE_DET
                             # enable_int(Mach, self, m2).cfg[self].EDGE_DET)

C14_Witness ==
    /\ op.name = "disable_interrupts"
    /\ cfg[self].EDGE_DET = Config.EDGE_DET.BothEdges
    /\ cfg[self].EDGE_IRQ_EN = Config.EDGE_IRQ_EN.CLEAR
    /\ cfg[self].PORT_ID = Config.PORT_ID.GPIO
    /\ self \in doe

PullCode(mode) ==
    CASE mode = "PullDown" -> Config.PULL.Down
      [] mode = "PullUp"   -> Config.PULL.Up
      [] mode = "PullNone" -> Config.PULL.None

\* C15: set_floating_state changes the pull field to the code of its mode and
\* nothing else; deactivate_to_low_power does what set_floating_state(PullNone)
\* does.
C15_PullOnly ==
    /\ [][Did("set_floating_state") =>
              /\ cfg' = [cfg EXCEPT ![self].PULL = PullCode(op'.f.fn)]
              /\ doe' = doe
              /\ gpt_sel' = gpt_sel]_vars
    /\ [][Did("deactivate_to_low_power") =>
              /\ cfg' = set_floating_state(Mach, self, "PullNone").cfg
              /\ cfg' = [cfg EXCEPT ![self].PULL = Config.PULL.None]
              /\ acc' = set_floating_state(Mach, self, "PullNone").acc
              /\ doe' = doe
              /\ gpt_sel' = gpt_sel]_vars

C15_Witness ==
    /\ op.name = "set_floating_state"
    /\ op.f.fn = "PullDown"
    /\ cfg[self].PULL = Config.PULL.Down
    /\ cfg[self].PORT_ID = Config.PORT_ID.I2C_MSSDA
    /\ cfg[self].IO_MODE = Config.IO_MODE.OpenDrain
    /\ self \in doe

\* C20 as stated: on a pin whose interrupt is armed, make_input, make_output
\* and every configure_for leave edge detection and edge-IRQ-enable as they are.
C20_ArmingSurvives ==
    [][((Did("make_input") \/ Did("make_output") \/ Did("configure_for")) /\ Armed) =>
          /\ cfg'[self].EDGE_DET = cfg[self].EDGE_DET
          /\ cfg'[self].EDGE_IRQ_EN = cfg[self].EDGE_IRQ_EN]_vars

\* C20: on a pin whose interrupt is armed, make_input and make_output leave
\* edge detection and edge-IRQ-enable as they are; configure_for resets both.
C20_OnlyModifyKeepsArming ==
    /\ [][((Did("make_input") \/ Did("make_output")) /\ Armed) =>
              /\ cfg'[self].EDGE_DET = cfg[self].EDGE_DET
              /\ cfg'[self].EDGE_IRQ_EN = cfg[self].EDGE_IRQ_EN]_vars
    /\ [][(Did("configure_for") /\ Armed) =>
              /\ cfg'[self].EDGE_DET = Config.EDGE_DET.None
              /\ cfg'[self].EDGE_IRQ_EN = Config.EDGE_IRQ_EN.CLEAR]_vars

C20_Witness ==
    /\ op.name = "make_output"
    /\ Armed
    /\ cfg[self].EDGE_DET = Config.EDGE_DET.RisingEdge
    /\ self \in doe

\* ======================================================= make_output claims
Writes(log) == SelectSeq(log, LAMBDA a : a \in {"cfg.write", "cfg.modify", "doe.set"})

\* C17: make_output makes exactly two register writes, and the output enable
\* of the pin is never asserted while the function is not yet GPIO or the
\* input enable not yet cleared.
C17_TwoWritesInOrder ==
    op.name = "make_output" =>
        /\ mpc = "idle" => Len(Writes(acc)) = 2
        /\ self \in doe =>
               /\ cfg[self].PORT_ID = Config.PORT_ID.GPIO
               /\ cfg[self].INPUT_EN = Config.INPUT_EN.CLEAR

\* C19: when a make_output on one pin and a make_output on another pin have
\* both completed, interleaved at any register access, the output enables of
\* both pins are asserted.
C19_NoLostEnable ==
    (op.name = "make_output" /\ mpc = "idle" /\ cut) =>
        (self \in doe /\ OtherPin \in doe)

\* ============================================================ client claims
\* C16: a pin has one callback slot, empty until set_client is called on it;
\* set_client on a pin replaces that pin's slot and no other; every call a
\* dispatch makes for a pin goes to the client the slot of the pin holds at
\* that moment, the one set last, and a dispatch calls a pin at most once.
C16_SingleSlot ==
    /\ \A p \in BitIdx : client[p] = "none"
    /\ [][client' # client =>
              \E p \in IrqPins, c \in Clients : client' = [client EXCEPT ![p] = c]]_vars
    /\ [](\A p \in BitIdx \ IrqPins : client[p] = "none")
    /\ [][Calls' # Calls /\ Len(hlog') > Len(hlog) =>
              /\ client[count] \in Clients
              /\ Calls' = Append(Calls, FiredBy(count, client[count]))]_vars
    /\ [](\A p \in BitIdx : Len(SelectSeq(Calls, LAMBDA e : e.val = {p})) <= 1)

C16_Witness ==
    /\ pc = "clear_pending"
    /\ Snapshot = {0, NUM_PINS - 1}
    /\ client[0] = "b"
    /\ client[NUM_PINS - 1] = "b"
    /\ Calls = <<FiredBy(0, "a"), FiredBy(NUM_PINS - 1, "b")>>

============================================================================
